---- MODULE Spec2Model ----
(***************************************************************************)
(* JobRunner (retry | backoff | timeout | dead letter) as a state machine. *)
(*                                                                         *)
(* One JobRunner instance (`job`) and the run() invocations made on it     *)
(* (`runs`).  A run is suspended at one of its three awaits: the           *)
(* Promise.race of _runWithTimeout ("race"), the timer of _backoff         *)
(* ("backoff") or the promise of _moveToDeadLetterQueue ("dlq").  What     *)
(* happens between two awaits is synchronous in the source and is one      *)
(* step here.  `now` is the time in milliseconds: it advances when time    *)
(* passes (Elapse) and when a timer fires at its due time; a call of run   *)
(* and a settlement happen at the present time.  The handler is the        *)
(* environment: each invocation either throws synchronously or returns a   *)
(* promise that settles at any later moment, or never.                     *)
(***************************************************************************)
EXTENDS Integers, Sequences, FiniteSets, TLC

VARIABLES job, now, runs

(***************************************************************************)
(* The dependency guard of the server: the two counters of the circuit     *)
(* breaker, the wall clock Date.now() (`clock`), the invocations of        *)
(* req.callDependency (`deps`, with `depCalls` counting them), and one     *)
(* invocation of retryRequest on its own (`rr`).  `trippedAt` remembers    *)
(* when a recordFailure last brought dependencyFailures to the threshold.  *)
(* A request and a call of fn take time, and time passes before a call of *)
(* callDependency: the clock is at the time of the last call, settlement   *)
(* or timer.                                                               *)
(***************************************************************************)
VARIABLES dependencyFailures, circuitOpenUntil, clock, deps, depCalls, trippedAt, rr

\* the process: start-up, the HTTP server, the database connection, the
\* signals received and the exit
VARIABLES proc

jobVars == <<job, now, runs>>

serverVars == <<dependencyFailures, circuitOpenUntil, clock, deps, depCalls,
                trippedAt, rr, proc>>

vars == <<jobVars, serverVars>>

(* ------------------------------ bounds -------------------------------- *)

MaxRetriesBound == 3
MaxBackoffMs == 2

(* ------------------------- values of the model ------------------------ *)

\* run() invocations on the instance
RunIds == DOMAIN runs

\* one invocation alone, and two invocations that may overlap
OneRun == {1}
TwoRuns == {1, 2}

JobNames == {"job"}

\* per-attempt timeouts the instance is constructed with
TimeoutChoices == {2}

\* the time that passes in one step of the clock, in milliseconds
Steps == {1}

\* the instants the clock may reach while no timer is armed
IdleTimes == {0, 1}

\* the payload handed to run()
Payloads == {"p2"}

\* the value a handler promise resolves with
Values == {"v2"}

\* the value of a function that ends without a return statement
Undefined == "undefined"

\* values a handler rejects with or throws: two Error objects (named by
\* their message) and the two values without properties
Nullish == {"null", "undefined"}
Errors == {"E1", "E2"} \cup Nullish

\* what the job handler throws before it returns, and what the promise it
\* returned rejects with
Thrown == {"E1"} \cup Nullish
Rejections == {"E2"} \cup Nullish

TimeoutError == "Job execution timed out"

\* the TypeError raised by reading a property of null or undefined
TypeErrorOf(e) ==
    IF e = "null" THEN "TypeError: Cannot read properties of null (reading 'message')"
    ELSE "TypeError: Cannot read properties of undefined (reading 'message')"

\* `error.message` throws for null and undefined
MessageThrows(e) == e \in Nullish

\* `error.message` of an Error object
Message(e) == e

\* what one invocation of the handler does before it returns
HandlerBehaviours ==
    {[kind |-> "promise", err |-> Undefined]} \cup
    {[kind |-> "throw", err |-> e] : e \in Thrown}

\* how a handler promise settles
Settlements ==
    {[state |-> "resolved", val |-> v] : v \in Values} \cup
    {[state |-> "rejected", val |-> e] : e \in Rejections}

\* how a promise that already lost its race settles: only whether it
\* resolves or rejects is told apart
LateSettlements ==
    {[state |-> "resolved", val |-> "v2"], [state |-> "rejected", val |-> "E2"]}

NoResult == [kind |-> "none", val |-> Undefined]

LogLine(tag, attempt, detail) ==
    [tag |-> tag, job |-> job.jobName, attempt |-> attempt, detail |-> detail]

(* --------------------------- construction ----------------------------- *)

\* the defaults of the constructor's parameters
DefaultMaxRetries == 3
DefaultBackoffMs == 2000
DefaultTimeoutMs == 5000

\* the step of the clock for an instance with the default times
DefaultSteps == {DefaultBackoffMs}

\* the default of run's parameter: payload = {}
EmptyPayload == "{}"

\* a default parameter value applies when the argument is undefined
OrDefault(arg, default) == IF arg = Undefined THEN default ELSE arg

\* new JobRunner({jobName, handler, maxRetries, backoffMs, timeoutMs})
Construct(opts) ==
    [jobName |-> opts.jobName,
     maxRetries |-> OrDefault(opts.maxRetries, DefaultMaxRetries),
     backoffMs |-> OrDefault(opts.backoffMs, DefaultBackoffMs),
     timeoutMs |-> OrDefault(opts.timeoutMs, DefaultTimeoutMs)]

IdleRun ==
    [pc |-> "idle", payload |-> Undefined, attempt |-> 0, calls |-> <<>>,
     timers |-> {}, waits |-> <<>>, dlq |-> <<>>, errors |-> <<>>,
     result |-> NoResult, log |-> <<>>]

(* ------------------- the dependency guard: values --------------------- *)

\* bounds of the exploration of the guard
MaxDepCalls == 3
MaxRetryArg == 3

\* concurrent requests of the server, each with its own req.callDependency;
\* a call takes the first slot that has no call in flight
DepSlots == {1, 2}

Null == "null"

\* circuitOpenUntil = null: no time is recorded
NullTime == -1

\* dependencyFailures >= 5
FailureThreshold == 5

\* 60 * 1000, the cooldown
CooldownMs == 60 * 1000

\* setTimeout(r, 500) between two tries
RetryWaitMs == 500

\* retries = 2
DefaultRetries == 2

\* apiClient.request settles with a response or with an Error of axios
DepData == {"d1"}
DepErrors == {"E1"}
DepOutcomes ==
    {[kind |-> "resolved", val |-> [data |-> d]] : d \in DepData}
        \cup {[kind |-> "rejected", val |-> e] : e \in DepErrors}

\* the second argument of callDependency, with its default null
FallbackArgs == {Undefined, "fb"}

\* fn of a direct retryRequest settles with any value or any error
FnOutcomes ==
    {[kind |-> "resolved", val |-> v] : v \in Values}
        \cup {[kind |-> "rejected", val |-> e] : e \in Errors}

\* the time a call of fn takes
FnDurations == {0, 100}

\* the time that passes until the response of a request arrives
DepDurations == {100}

\* the time between the last event and a call of callDependency
CallDelays == {0, 50, 450}

IdleRetry ==
    [phase |-> "idle", asked |-> 0, retries |-> 0, calls |-> 0, outs |-> <<>>,
     calledAt |-> NullTime, failedAt |-> NullTime, due |-> NullTime, waits |-> <<>>,
     result |-> NoResult]

FreeSlot ==
    [state |-> "free", fallback |-> Null, q |-> IdleRetry, issued |-> 0,
     via |-> "none", result |-> NoResult, inWindow |-> FALSE,
     afterCooldown |-> FALSE]

(* ----------------------- the process: values -------------------------- *)

\* bounds of the exploration of the shutdown
MaxSignals == 2
MaxConns == 2
MaxIdleTicks == 1

\* setTimeout(() => process.exit(1), 10000)
ShutdownTimeoutMs == 10000

\* the time that passes in one step of the clock
TickMs == ShutdownTimeoutMs \div 2

Signals == {"SIGINT", "SIGTERM"}

\* process.exit has not been called
NoExit == -1

\* the exit code of a process whose uncaughtException handler throws
HandlerFailureExit == 7

\* who ended the process: the callback of server.close, the 10 s timer or
\* the handler of uncaughtException
ExitPaths == {"close", "timer", "uncaught"}

\* let dbConnection = null
NullConnection == [isNull |-> TRUE, mongoose |-> Null]

\* what startServer leaves in dbConnection: the value initDB resolved with,
\* with or without a mongoose, or null when initDB rejected
DbConnections ==
    {NullConnection,
     [isNull |-> FALSE, mongoose |-> Null],
     [isNull |-> FALSE, mongoose |-> "mongoose"]}

\* dbConnection?.mongoose is truthy
HasMongoose(c) == ~c.isNull /\ c.mongoose # Null

\* mongoose.connection.close(false) resolves, or rejects
DbCloseOutcomes == {"resolved", "rejected"}

\* the module has been loaded and startServer() awaits initDB()
Loaded ==
    [started |-> FALSE, dbConnection |-> NullConnection, listening |-> FALSE,
     conns |-> 0, idle |-> 0, idleTicks |-> 0, signals |-> <<>>, timers |-> {},
     closeCbs |-> 0, serverClosed |-> FALSE, db |-> "none", closes |-> <<>>,
     events |-> <<>>, exit |-> NoExit, exitAt |-> NullTime, by |-> "none"]

\* the server after start-up: no failure counted, the circuit closed
ServerIdle ==
    /\ dependencyFailures = 0
    /\ circuitOpenUntil = NullTime
    /\ clock = 0
    /\ deps = [s \in DepSlots |-> FreeSlot]
    /\ depCalls = 0
    /\ trippedAt = NullTime
    /\ rr = IdleRetry
    /\ proc = Loaded

Init ==
    /\ job \in [jobName : JobNames,
                maxRetries : -1 .. MaxRetriesBound,
                backoffMs : 1 .. MaxBackoffMs,
                timeoutMs : TimeoutChoices]
    /\ now = 0
    /\ runs = [r \in OneRun |-> IdleRun]
    /\ ServerIdle

(* ------------------------------ helpers ------------------------------- *)

\* every armed timer of every run
AllTimers == UNION {runs[r].timers : r \in RunIds}

\* ClearTimeout without the finally: the timer stays armed
ClearTimeoutMissing(rn, i) == rn

\* clearTimeout(timeout) in the finally of _runWithTimeout
ClearTimeout(rn, i) ==
    [rn EXCEPT !.timers = {t \in @ : ~(t.kind = "timeout" /\ t.attempt = i)}]

\* RacePending for a race that a late settlement can decide again
RacePendingOrLost(c) == c.race \in {"pending", "lost"}

\* a promise settles once: a race is decided by whoever settles it first
RacePending(c) == c.race = "pending"

\* BackoffDelay doubling from one attempt to the next
BackoffDelayExponential(attempt) == job.backoffMs * 2 ^ (attempt - 1)

\* _backoff: delay = backoffMs * attempt, log, setTimeout(resolve, delay)
BackoffDelay(attempt) == job.backoffMs * attempt

Backoff(rn, t) ==
    LET delay == BackoffDelay(rn.attempt) IN
    [rn EXCEPT !.pc = "backoff",
               !.log = Append(@, LogLine("RETRY", rn.attempt, delay)),
               !.timers = @ \cup {[kind |-> "backoff", due |-> t + delay,
                                   attempt |-> rn.attempt]},
               !.waits = Append(@, [after |-> rn.attempt, delay |-> delay,
                                    from |-> t])]

\* _moveToDeadLetterQueue: the body runs to its end within the call; run
\* then awaits the promise it returned
MoveToDeadLetterQueue(rn, e) ==
    [rn EXCEPT !.pc = "dlq",
               !.log = Append(@, LogLine("DEAD LETTER", rn.attempt, Message(e))),
               !.dlq = Append(@, [error |-> e, payload |-> rn.payload,
                                  attempt |-> rn.attempt])]

\* Exhausted one attempt early
ExhaustedEarly(rn) == rn.attempt >= job.maxRetries

\* whether the catch block gives up
Exhausted(rn) == rn.attempt > job.maxRetries

\* the catch block of run, up to its await (or to the throw that ends run)
Catch(rn, e, t) ==
    LET caught == [rn EXCEPT !.errors = Append(@, e)] IN
    IF MessageThrows(e)
    THEN [caught EXCEPT !.pc = "rejected",
                        !.result = [kind |-> "error", val |-> TypeErrorOf(e)]]
    ELSE LET logged == [caught EXCEPT
                          !.log = Append(@, LogLine("FAILED", rn.attempt, Message(e)))]
         IN IF Exhausted(logged)
            THEN MoveToDeadLetterQueue(logged, e)
            ELSE Backoff(logged, t)

\* RunWithTimeout without the timer
RunWithTimeoutNoTimer(rn, t) == [rn EXCEPT !.pc = "race"]

\* _runWithTimeout up to the await: arm the timer, race it with the promise
RunWithTimeout(rn, t) ==
    [rn EXCEPT !.pc = "race",
               !.timers = @ \cup {[kind |-> "timeout", due |-> t + job.timeoutMs,
                                   attempt |-> rn.attempt]}]

\* the handler invocation of an attempt, as run records it
NewCall(rn, beh, t) ==
    IF beh.kind = "throw"
    THEN [arg |-> rn.payload, state |-> "threw", val |-> beh.err,
          race |-> "none", at |-> t]
    ELSE [arg |-> rn.payload, state |-> "pending", val |-> Undefined,
          race |-> "pending", at |-> t]

\* Return without the `return result`
ReturnDropsResult(rn, v) ==
    [rn EXCEPT !.pc = "resolved",
               !.log = Append(@, LogLine("SUCCESS", rn.attempt, Undefined)),
               !.result = [kind |-> "value", val |-> Undefined]]

\* the value run returns after a successful attempt
Return(rn, v) ==
    [rn EXCEPT !.pc = "resolved",
               !.log = Append(@, LogLine("SUCCESS", rn.attempt, Undefined)),
               !.result = [kind |-> "value", val |-> v]]

\* the loop of run from its test to the next await
LoopIter(rn, t, beh) ==
    IF ~(rn.attempt <= job.maxRetries)
    THEN [rn EXCEPT !.pc = "resolved",
                    !.result = [kind |-> "value", val |-> Undefined]]
    ELSE LET started == [rn EXCEPT
                           !.attempt = @ + 1,
                           !.log = Append(@, LogLine("START", rn.attempt + 1, Undefined))]
             called == [started EXCEPT !.calls = Append(@, NewCall(started, beh, t))]
         IN IF beh.kind = "throw"
            THEN Catch(called, beh.err, t)
            ELSE RunWithTimeout(called, t)

(* ------------------------------ actions ------------------------------- *)

\* Frame with the attempt counter kept on the instance (this.attempt)
\* instead of in a local variable: every invocation reads the same counter
FrameSharedCounter(r) ==
    LET highest == CHOOSE a \in {runs[q].attempt : q \in DOMAIN runs} :
                      \A q \in DOMAIN runs : runs[q].attempt <= a
    IN [runs[r] EXCEPT !.attempt = highest]

\* the local variables of invocation r of run (payload, attempt) and of its
\* calls of _runWithTimeout (timeout)
Frame(r) == runs[r]

\* run(payload) is called
Run(r) ==
    /\ runs[r].pc = "idle"
    /\ \E p \in Payloads, beh \in HandlerBehaviours :
         runs' = [runs EXCEPT ![r] = LoopIter([Frame(r) EXCEPT !.payload = p], now, beh)]
    /\ UNCHANGED <<job, now, serverVars>>

\* the promise the handler returned settles, during the race or after it
SettleCall(rn, i, s, t) ==
    LET settled == [rn EXCEPT !.calls[i].state = s.state, !.calls[i].val = s.val] IN
    IF RacePending(rn.calls[i])
    THEN LET decided == ClearTimeout([settled EXCEPT !.calls[i].race = "won"], i) IN
         IF s.state = "resolved"
         THEN Return(decided, s.val)
         ELSE Catch(decided, s.val, t)
    ELSE settled

HandlerSettle(r) ==
    \E i \in 1 .. Len(runs[r].calls), s \in Settlements :
        /\ runs[r].calls[i].state = "pending"
        /\ runs[r].calls[i].race = "lost" => s \in LateSettlements
        /\ runs' = [runs EXCEPT ![r] = SettleCall(Frame(r), i, s, now)]
        /\ UNCHANGED <<job, now, serverVars>>

\* TimeoutReject with a timeout taken as fatal: no retry after it
TimeoutRejectFatal(rn, i, t) ==
    IF RacePending(rn.calls[i])
    THEN LET lost == ClearTimeout([rn EXCEPT !.calls[i].race = "lost"], i) IN
         MoveToDeadLetterQueue([lost EXCEPT !.errors = Append(@, TimeoutError)],
                               TimeoutError)
    ELSE ClearTimeout(rn, i)

\* TimeoutReject failing the attempt without settling the race
TimeoutRejectKeepsRace(rn, i, t) ==
    IF RacePending(rn.calls[i])
    THEN Catch(ClearTimeout(rn, i), TimeoutError, t)
    ELSE ClearTimeout(rn, i)

\* the timeout callback: reject(new Error("Job execution timed out"))
TimeoutReject(rn, i, t) ==
    IF RacePending(rn.calls[i])
    THEN Catch(ClearTimeout([rn EXCEPT !.calls[i].race = "lost"], i), TimeoutError, t)
    ELSE ClearTimeout(rn, i)

\* timers fire in the order of their due times
Due(tm) == \A t \in AllTimers : tm.due <= t.due

TimeoutFire(r) ==
    \E tm \in runs[r].timers :
        /\ tm.kind = "timeout"
        /\ Due(tm)
        /\ now' = tm.due
        /\ runs' = [runs EXCEPT ![r] = TimeoutReject(Frame(r), tm.attempt, tm.due)]
        /\ UNCHANGED <<job, serverVars>>

\* the timer of _backoff fires: run resumes at the loop test
BackoffFire(r) ==
    \E tm \in runs[r].timers, beh \in HandlerBehaviours :
        /\ tm.kind = "backoff"
        /\ Due(tm)
        /\ now' = tm.due
        /\ runs' = [runs EXCEPT ![r] =
                      LoopIter([Frame(r) EXCEPT !.timers = @ \ {tm}], tm.due, beh)]
        /\ UNCHANGED <<job, serverVars>>

\* d milliseconds pass without an event; a timer fires in the millisecond
\* it is due, so the clock does not pass the due time of an armed timer
Elapse(d) ==
    /\ \A tm \in AllTimers : now + d <= tm.due
    /\ AllTimers = {} => now + d \in IdleTimes
    /\ now' = now + d
    /\ UNCHANGED <<job, runs, serverVars>>

\* `throw error` after the await of _moveToDeadLetterQueue
Throw(rn) ==
    [rn EXCEPT !.pc = "rejected",
               !.result = [kind |-> "error", val |-> rn.errors[Len(rn.errors)]]]

DlqDone(r) ==
    /\ runs[r].pc = "dlq"
    /\ runs' = [runs EXCEPT ![r] = Throw(Frame(r))]
    /\ UNCHANGED <<job, now, serverVars>>

Next ==
    \/ \E r \in RunIds : Run(r)
    \/ \E r \in RunIds : HandlerSettle(r)
    \/ \E r \in RunIds : TimeoutFire(r)
    \/ \E r \in RunIds : BackoffFire(r)
    \/ \E r \in RunIds : DlqDone(r)
    \/ \E d \in Steps : Elapse(d)

Spec == Init /\ [][Next]_vars

\* run() is called without an argument
RunNoArg(r) ==
    /\ runs[r].pc = "idle"
    /\ \E beh \in HandlerBehaviours :
         runs' = [runs EXCEPT ![r] =
                    LoopIter([Frame(r) EXCEPT !.payload = OrDefault(Undefined, EmptyPayload)],
                             now, beh)]
    /\ UNCHANGED <<job, now, serverVars>>

\* an instance constructed with jobName and handler only, run without payload
InitDefaults ==
    /\ job \in {Construct([jobName |-> n, maxRetries |-> Undefined,
                            backoffMs |-> Undefined, timeoutMs |-> Undefined]) :
                   n \in JobNames}
    /\ now = 0
    /\ runs = [r \in OneRun |-> IdleRun]
    /\ ServerIdle

NextDefaults ==
    \/ \E r \in RunIds : RunNoArg(r)
    \/ \E r \in RunIds : HandlerSettle(r)
    \/ \E r \in RunIds : TimeoutFire(r)
    \/ \E r \in RunIds : BackoffFire(r)
    \/ \E r \in RunIds : DlqDone(r)
    \/ \E d \in DefaultSteps : Elapse(d)

SpecDefaults == InitDefaults /\ [][NextDefaults]_vars

\* two invocations of run on one instance, each called at any moment
TwoRunRetries == {0, 1}

InitTwo ==
    /\ job \in [jobName : JobNames,
                maxRetries : TwoRunRetries,
                backoffMs : {1},
                timeoutMs : TimeoutChoices]
    /\ now = 0
    /\ runs = [r \in TwoRuns |-> IdleRun]
    /\ ServerIdle

SpecTwo == InitTwo /\ [][Next]_vars

\* one instance for each maxRetries, with the shortest backoff
InitFair ==
    /\ Init
    /\ job.backoffMs = 1

\* armed timers fire, and the continuation of a settled promise runs
FairSpec ==
    /\ InitFair
    /\ [][Next]_vars
    /\ \A r \in OneRun :
          WF_vars(TimeoutFire(r)) /\ WF_vars(BackoffFire(r)) /\ WF_vars(DlqDone(r))

(* --------------------------- retryRequest ----------------------------- *)

\* retryRequest(fn, retries) enters its try and calls fn, at time t
retryRequest(retries, t) ==
    [IdleRetry EXCEPT !.phase = "calling", !.asked = retries,
                      !.retries = retries, !.calls = 1, !.calledAt = t]

FnSettleOneMore(q, out, t) ==
    LET q1 == [q EXCEPT !.outs = Append(@, out), !.calledAt = NullTime]
    IN IF out.kind = "resolved"
       THEN [q1 EXCEPT !.phase = "resolved", !.result = out]
       ELSE IF q.retries < 0
            THEN [q1 EXCEPT !.phase = "rejected", !.result = out]
            ELSE [q1 EXCEPT !.phase = "waiting", !.failedAt = t,
                            !.due = t + RetryWaitMs]

\* await fn() ends at time t: its value is returned, or its error is
\* thrown when no retry is left, or the 500 ms timer is armed
FnSettle(q, out, t) ==
    LET q1 == [q EXCEPT !.outs = Append(@, out), !.calledAt = NullTime]
    IN IF out.kind = "resolved"
       THEN [q1 EXCEPT !.phase = "resolved", !.result = out]
       ELSE IF q.retries <= 0
            THEN [q1 EXCEPT !.phase = "rejected", !.result = out]
            ELSE [q1 EXCEPT !.phase = "waiting", !.failedAt = t,
                            !.due = t + RetryWaitMs]

\* the timer fires at time t: return retryRequest(fn, retries - 1);
\* `waits` keeps the time that has passed since the failed call
RetryAgain(q, t) ==
    [q EXCEPT !.phase = "calling", !.retries = @ - 1, !.calls = @ + 1,
              !.calledAt = t, !.waits = Append(@, t - q.failedAt),
              !.failedAt = NullTime, !.due = NullTime]

\* the due times of the armed 500 ms timers
RetryTimers ==
    {deps[s].q.due : s \in {x \in DepSlots : deps[x].q.phase = "waiting"}}
        \cup (IF rr.phase = "waiting" THEN {rr.due} ELSE {})

\* the times at which the calls in flight were made
InFlight ==
    {deps[s].q.calledAt : s \in {x \in DepSlots : deps[x].q.phase = "calling"}}
        \cup (IF rr.phase = "calling" THEN {rr.calledAt} ELSE {})

\* the longest a call takes
Slowest == CHOOSE m \in DepDurations \cup FnDurations :
              \A d \in DepDurations \cup FnDurations : d <= m

\* what happens at time t happens in the order of time: t is not in the
\* past, no armed timer is due before t, and every call in flight can still
\* settle at t or later
InOrder(t) ==
    /\ clock <= t
    /\ \A due \in RetryTimers : t <= due
    /\ \A c \in InFlight : t <= c + Slowest

(* ------------------------- the circuit breaker ------------------------ *)

isCircuitOpenForever(until, t) == until # NullTime /\ until # 0

\* circuitOpenUntil && Date.now() < circuitOpenUntil
isCircuitOpen(until, t) == until # NullTime /\ until # 0 /\ t < until

\* dependencyFailures++, and the circuit opens from 5 failures on
recordFailure(failures, until, t) ==
    LET n == failures + 1
    IN [failures |-> n,
        openUntil |-> IF n >= FailureThreshold THEN t + CooldownMs ELSE until]

recordSuccessKeepsCircuit(failures, until) == [failures |-> 0, openUntil |-> until]

recordSuccess(failures, until) == [failures |-> 0, openUntil |-> NullTime]

\* less than 60 seconds have passed since dependencyFailures came to 5
InWindow(t) == trippedAt # NullTime /\ t < trippedAt + CooldownMs

\* circuitOpenUntil is set and that time has been reached: 60 seconds have
\* passed since the last recordFailure at or above the threshold
AfterCooldown(t) == circuitOpenUntil # NullTime /\ t >= circuitOpenUntil

\* a call of callDependency starts at time t: what holds at that moment is
\* kept
StartSlot(fallback, t) ==
    [FreeSlot EXCEPT !.fallback = fallback,
                     !.inWindow = InWindow(t),
                     !.afterCooldown = AfterCooldown(t)]

\* callDependency returns by the path `via`: the circuit was open, the
\* request succeeded, or every try failed
Done(slot, q, via, result) ==
    [slot EXCEPT !.state = "done", !.q = IdleRetry, !.issued = q.calls,
                 !.via = via, !.result = result]

DepCatchRethrows(slot, q, err) ==
    Done(slot, q, "failure", [kind |-> "rejected", val |-> err])

\* the catch of callDependency after recordFailure: the error is logged
\* with err.message and the fallback is returned
DepCatch(slot, q, err) ==
    IF MessageThrows(err)
    THEN Done(slot, q, "failure", [kind |-> "rejected", val |-> TypeErrorOf(err)])
    ELSE Done(slot, q, "failure", [kind |-> "resolved", val |-> slot.fallback])

\* recordSuccess(); return response.data
DepReturn(slot, q, response) ==
    Done(slot, q, "success", [kind |-> "resolved", val |-> response.data])

\* the record of a call that has returned is kept until the next call
\* starts or returns
Forget(s) ==
    [x \in DepSlots |-> IF x # s /\ deps[x].state = "done" THEN FreeSlot ELSE deps[x]]

\* req.callDependency(config, fallback) is called d milliseconds after the
\* last event: with the circuit open at that time it returns the fallback,
\* otherwise retryRequest issues the first request
callDependency(s, fallbackArg, d) ==
    /\ deps[s].state \in {"free", "done"}
    /\ \A x \in DepSlots : x < s => deps[x].state = "running"
    /\ depCalls < MaxDepCalls
    /\ InOrder(clock + d)
    /\ clock' = clock + d
    /\ LET t == clock + d
           slot == StartSlot(OrDefault(fallbackArg, Null), t)
       IN deps' = [Forget(s) EXCEPT ![s] =
                     IF isCircuitOpen(circuitOpenUntil, t)
                     THEN Done(slot, IdleRetry, "open",
                               [kind |-> "resolved", val |-> slot.fallback])
                     ELSE [slot EXCEPT !.state = "running",
                                       !.q = retryRequest(OrDefault(Undefined,
                                                                    DefaultRetries),
                                                          t)]]
    /\ depCalls' = depCalls + 1
    /\ UNCHANGED <<jobVars, proc, dependencyFailures, circuitOpenUntil,
                   trippedAt, rr>>

\* apiClient.request settles d milliseconds after it was called:
\* retryRequest goes on, and when it settles callDependency records the
\* success or the failure at that time and returns
DepRespond(s) ==
    /\ deps[s].state = "running"
    /\ deps[s].q.phase = "calling"
    /\ \E out \in DepOutcomes, d \in DepDurations :
         LET t == deps[s].q.calledAt + d
             q == FnSettle(deps[s].q, out, t)
             ok == recordSuccess(dependencyFailures, circuitOpenUntil)
             ko == recordFailure(dependencyFailures, circuitOpenUntil, t)
         IN /\ InOrder(t)
            /\ clock' = t
            /\ CASE q.phase = "resolved" ->
                      /\ dependencyFailures' = ok.failures
                      /\ circuitOpenUntil' = ok.openUntil
                      /\ deps' = [Forget(s) EXCEPT ![s] = DepReturn(@, q, q.result.val)]
                      /\ UNCHANGED trippedAt
                 [] q.phase = "rejected" ->
                      /\ dependencyFailures' = ko.failures
                      /\ circuitOpenUntil' = ko.openUntil
                      /\ deps' = [Forget(s) EXCEPT ![s] = DepCatch(@, q, q.result.val)]
                      /\ trippedAt' = IF ko.failures = FailureThreshold
                                      THEN t ELSE trippedAt
                 [] OTHER ->
                      /\ deps' = [deps EXCEPT ![s].q = q]
                      /\ UNCHANGED <<dependencyFailures, circuitOpenUntil, trippedAt>>
    /\ UNCHANGED <<jobVars, proc, depCalls, rr>>

\* the 500 ms timer of a waiting retryRequest fires
DepRetry(s) ==
    /\ deps[s].state = "running"
    /\ deps[s].q.phase = "waiting"
    /\ InOrder(deps[s].q.due)
    /\ clock' = deps[s].q.due
    /\ deps' = [deps EXCEPT ![s].q = RetryAgain(@, @.due)]
    /\ UNCHANGED <<jobVars, proc, dependencyFailures, circuitOpenUntil, depCalls,
                   trippedAt, rr>>

\* time passes with no call of the dependency in flight, until 60 seconds
\* have passed since dependencyFailures came to 5
WindowEnds ==
    /\ \A s \in DepSlots : deps[s].state # "running"
    /\ InWindow(clock)
    /\ clock' = trippedAt + CooldownMs
    /\ UNCHANGED <<jobVars, proc, dependencyFailures, circuitOpenUntil, deps,
                   depCalls, trippedAt, rr>>

\* time passes with no call of the dependency in flight, until the time
\* in circuitOpenUntil is reached
CooldownEnds ==
    /\ \A s \in DepSlots : deps[s].state # "running"
    /\ isCircuitOpen(circuitOpenUntil, clock)
    /\ clock' = circuitOpenUntil
    /\ UNCHANGED <<jobVars, proc, dependencyFailures, circuitOpenUntil, deps,
                   depCalls, trippedAt, rr>>

\* the job runner is not involved: its state stays as constructed
InitBreaker ==
    /\ job \in {Construct([jobName |-> n, maxRetries |-> Undefined,
                            backoffMs |-> Undefined, timeoutMs |-> Undefined]) :
                   n \in JobNames}
    /\ now = 0
    /\ runs = [r \in OneRun |-> IdleRun]
    /\ ServerIdle

\* a call whose three requests are rejected takes the time of the requests
\* and of the two waits between them
FailedCallMs == (DefaultRetries + 1) * Slowest + DefaultRetries * RetryWaitMs

\* the guard after k calls, made one after the other, have failed on all
\* their tries, for every k that leaves the circuit closed; depCalls counts
\* the calls made from then on
InitCounted ==
    /\ job \in {Construct([jobName |-> n, maxRetries |-> Undefined,
                            backoffMs |-> Undefined, timeoutMs |-> Undefined]) :
                   n \in JobNames}
    /\ now = 0
    /\ runs = [r \in OneRun |-> IdleRun]
    /\ \E k \in 0 .. FailureThreshold - 1 :
          /\ dependencyFailures = k
          /\ clock = k * FailedCallMs
    /\ circuitOpenUntil = NullTime
    /\ deps = [s \in DepSlots |-> FreeSlot]
    /\ depCalls = 0
    /\ trippedAt = NullTime
    /\ rr = IdleRetry
    /\ proc = Loaded

NextBreaker ==
    \/ \E s \in DepSlots : \E fb \in FallbackArgs, d \in CallDelays :
          callDependency(s, fb, d)
    \/ \E s \in DepSlots : DepRespond(s)
    \/ \E s \in DepSlots : DepRetry(s)
    \/ WindowEnds
    \/ CooldownEnds

SpecBreaker == InitCounted /\ [][NextBreaker]_vars

(* --------------------- retryRequest called directly ------------------- *)

\* retryRequest(fn, n)
RetryCall(n) ==
    /\ rr.phase = "idle"
    /\ rr' = retryRequest(n, clock)
    /\ UNCHANGED <<jobVars, proc, dependencyFailures, circuitOpenUntil, clock, deps,
                   depCalls, trippedAt>>

\* retryRequest(fn)
RetryCallDefault ==
    /\ rr.phase = "idle"
    /\ rr' = retryRequest(OrDefault(Undefined, DefaultRetries), clock)
    /\ UNCHANGED <<jobVars, proc, dependencyFailures, circuitOpenUntil, clock, deps,
                   depCalls, trippedAt>>

\* the promise of fn settles, d milliseconds after fn was called
RetrySettle ==
    /\ rr.phase = "calling"
    /\ \E out \in FnOutcomes, d \in FnDurations :
         /\ InOrder(rr.calledAt + d)
         /\ clock' = rr.calledAt + d
         /\ rr' = FnSettle(rr, out, rr.calledAt + d)
    /\ UNCHANGED <<jobVars, proc, dependencyFailures, circuitOpenUntil, deps,
                   depCalls, trippedAt>>

\* the 500 ms timer fires
RetryWake ==
    /\ rr.phase = "waiting"
    /\ InOrder(rr.due)
    /\ clock' = rr.due
    /\ rr' = RetryAgain(rr, rr.due)
    /\ UNCHANGED <<jobVars, proc, dependencyFailures, circuitOpenUntil, deps,
                   depCalls, trippedAt>>

NextRetry ==
    \/ \E n \in 0 .. MaxRetryArg : RetryCall(n)
    \/ RetryCallDefault
    \/ RetrySettle
    \/ RetryWake

SpecRetry == InitBreaker /\ [][NextRetry]_vars

\* the promise returned by fn settles and an armed timer fires
FairRetry == SpecRetry /\ WF_vars(RetrySettle) /\ WF_vars(RetryWake)

(* ------------------------------ shutdown ------------------------------ *)

guardVars == <<dependencyFailures, circuitOpenUntil, deps, depCalls, trippedAt, rr>>

Exited == proc.exit # NoExit

\* process.exit(code) at time t, called on the path `by`
Exit(p, code, by, t) ==
    [p EXCEPT !.exit = code, !.exitAt = t, !.by = by,
              !.events = Append(@, "exit")]

CloseCallbackSkipsDb(p, t) == Exit(p, 0, "close", t)

\* the callback given to server.close runs up to its await: with a mongoose
\* it calls connection.close(false) and awaits the promise of that call,
\* without one it exits
CloseCallback(p, t) ==
    IF HasMongoose(p.dbConnection)
    THEN [p EXCEPT !.db = "closing",
                   !.closes = Append(@, "pending"),
                   !.events = Append(@, "dbClose")]
    ELSE Exit(p, 0, "close", t)

\* the handler of uncaughtException: it logs err.message and err.stack and
\* calls process.exit(1); reading err.message of null or undefined throws
\* inside the handler, which ends the process as well
UncaughtHandler(p, err, t) ==
    IF MessageThrows(err)
    THEN Exit(p, HandlerFailureExit, "uncaught", t)
    ELSE Exit(p, 1, "uncaught", t)

\* the listeners of 'close' run in the order of their registration, until
\* one of them ends the process
RECURSIVE RunCallbacks(_, _, _)
RunCallbacks(p, n, t) ==
    IF n = 0 \/ p.exit # NoExit
    THEN p
    ELSE RunCallbacks(CloseCallback([p EXCEPT !.closeCbs = @ - 1], t), n - 1, t)

\* the server has no handle and no connection left
Drained(p) == ~p.listening /\ p.conns = 0

\* _emitCloseIfDrained() of the server: it emits 'close' when it has no
\* handle and no connection; nothing runs after process.exit
EmitCloseIfDrained(p, t) ==
    IF Drained(p) /\ p.exit = NoExit
    THEN RunCallbacks([p EXCEPT !.serverClosed = TRUE,
                                !.events = Append(@, "serverClosed")],
                      p.closeCbs, t)
    ELSE p

\* closeIdleConnections() of the http.Server: the connections that are
\* neither sending a request nor waiting for a response are ended
CloseIdleConnections(p) == [p EXCEPT !.conns = @ - p.idle, !.idle = 0]

\* the last idle connection of a server that has no handle is ended: the
\* socket destroyed by closeIdleConnections() calls _emitCloseIfDrained()
LastSocketDestroyed(p) == ~p.listening /\ p.idle > 0 /\ p.conns = p.idle

\* shutdown(signal): server.close(callback) of the http.Server ends the
\* idle connections, keeps the callback for 'close', closes the handle and
\* calls _emitCloseIfDrained(); the 10 s timer is armed. The 'close' events
\* are emitted on the next tick, after the callback has been registered:
\* one for the last socket destroyed when the handle was already gone, one
\* for the close of the server itself
Shutdown(p, signal, t) ==
    LET q == CloseIdleConnections(
                 [p EXCEPT !.signals = Append(@, [signal |-> signal, at |-> t]),
                           !.events = Append(@, "signal"),
                           !.listening = FALSE,
                           !.closeCbs = @ + 1,
                           !.timers = @ \cup {t + ShutdownTimeoutMs}])
    IN EmitCloseIfDrained(IF LastSocketDestroyed(p)
                          THEN EmitCloseIfDrained(q, t)
                          ELSE q,
                          t)

\* startServer goes on after initDB. dbConnection is what initDB resolved
\* with, or null after a rejection with err, unless the catch throws at
\* err.message and startServer ends there. server.listen then binds the
\* port, or emits 'error' when the port is in use: the server has no
\* listener for 'error', so the error reaches the handler of
\* uncaughtException
StartServerDone ==
    /\ ~Exited
    /\ ~proc.started
    /\ \E c \in DbConnections, err \in Errors, inUse \in BOOLEAN :
         LET p == [proc EXCEPT !.started = TRUE,
                               !.dbConnection = c,
                               !.db = IF HasMongoose(c) THEN "open" ELSE "none"]
         IN proc' = IF c.isNull /\ MessageThrows(err)
                    THEN [proc EXCEPT !.started = TRUE]
                    ELSE IF inUse
                         THEN UncaughtHandler(p, "EADDRINUSE", clock)
                         ELSE [p EXCEPT !.listening = TRUE]
    /\ UNCHANGED <<jobVars, guardVars, clock>>

\* a client connects to the listening server; it has sent nothing yet
Connect ==
    /\ ~Exited
    /\ proc.listening
    /\ proc.conns < MaxConns
    /\ proc' = [proc EXCEPT !.conns = @ + 1]
    /\ UNCHANGED <<jobVars, guardVars, clock>>

\* the request on a connection has been answered and the connection is
\* kept alive
Answered ==
    /\ ~Exited
    /\ proc.idle < proc.conns
    /\ proc' = [proc EXCEPT !.idle = @ + 1]
    /\ UNCHANGED <<jobVars, guardVars, clock>>

\* a request arrives on a connection that was kept alive
Request ==
    /\ ~Exited
    /\ proc.idle > 0
    /\ proc' = [proc EXCEPT !.idle = @ - 1]
    /\ UNCHANGED <<jobVars, guardVars, clock>>

\* a connection ends, an idle one or one that is in use
Disconnect ==
    /\ ~Exited
    /\ \E n \in {0, 1} :
         /\ n <= proc.idle
         /\ 1 - n <= proc.conns - proc.idle
         /\ proc' = EmitCloseIfDrained([proc EXCEPT !.conns = @ - 1,
                                                    !.idle = @ - n],
                                       clock)
    /\ UNCHANGED <<jobVars, guardVars, clock>>

\* process.on("SIGINT", shutdown); process.on("SIGTERM", shutdown)
Signal ==
    /\ ~Exited
    /\ Len(proc.signals) < MaxSignals
    /\ \E sig \in Signals : proc' = Shutdown(proc, sig, clock)
    /\ UNCHANGED <<jobVars, guardVars, clock>>

\* the promise of the i-th call of connection.close(false) settles: after
\* a resolution the callback that awaits it calls process.exit(0), after a
\* rejection that callback ends (its rejection is logged by the handler of
\* unhandledRejection)
DbCloseSettle(i) ==
    /\ ~Exited
    /\ i \in DOMAIN proc.closes
    /\ proc.closes[i] = "pending"
    /\ \E o \in DbCloseOutcomes :
         proc' = IF o = "resolved"
                 THEN Exit([proc EXCEPT !.db = "closed",
                                        !.closes[i] = "resolved",
                                        !.events = Append(@, "dbClosed")],
                           0, "close", clock)
                 ELSE [proc EXCEPT
                         !.db = IF \E j \in DOMAIN proc.closes \ {i} :
                                      proc.closes[j] = "pending"
                                THEN "closing" ELSE "failed",
                         !.closes[i] = "rejected",
                         !.events = Append(@, "dbCloseFailed")]
    /\ UNCHANGED <<jobVars, guardVars, clock>>

\* a callback throws err and nothing catches it
UncaughtException ==
    /\ ~Exited
    /\ \E err \in Errors : proc' = UncaughtHandler(proc, err, clock)
    /\ UNCHANGED <<jobVars, guardVars, clock>>

\* time passes, up to the next timer
Tick ==
    /\ ~Exited
    /\ IF proc.timers = {}
       THEN /\ proc.idleTicks < MaxIdleTicks
            /\ proc' = [proc EXCEPT !.idleTicks = @ + 1]
       ELSE /\ \A d \in proc.timers : clock + TickMs <= d
            /\ UNCHANGED proc
    /\ clock' = clock + TickMs
    /\ UNCHANGED <<jobVars, guardVars>>

\* the 10 s timer fires: process.exit(1)
ShutdownTimerFire ==
    /\ ~Exited
    /\ \E d \in proc.timers : d <= clock
    /\ proc' = Exit(proc, 1, "timer", clock)
    /\ UNCHANGED <<jobVars, guardVars, clock>>

NextShutdown ==
    \/ StartServerDone
    \/ Connect
    \/ Answered
    \/ Request
    \/ Disconnect
    \/ Signal
    \/ \E i \in 1 .. MaxSignals : DbCloseSettle(i)
    \/ UncaughtException
    \/ Tick
    \/ ShutdownTimerFire

SpecShutdown == InitBreaker /\ [][NextShutdown]_vars

\* time passes and a due timer fires
FairShutdown == SpecShutdown /\ WF_vars(Tick) /\ WF_vars(ShutdownTimerFire)

(* --------------------- vocabulary of the properties ------------------- *)

Settled(rn) == rn.pc \in {"resolved", "rejected"}

\* attempt i ended by its timeout
TimedOut(rn, i) == rn.calls[i].race = "lost"

\* attempt i ended by a failure of the handler itself
HandlerFailed(rn, i) ==
    \/ rn.calls[i].state = "threw"
    \/ rn.calls[i].state = "rejected" /\ rn.calls[i].race = "won"

\* attempt i ended by the success of the handler
Succeeded(rn, i) == rn.calls[i].state = "resolved" /\ rn.calls[i].race = "won"

\* the error attempt i failed with
AttemptError(rn, i) == IF TimedOut(rn, i) THEN TimeoutError ELSE rn.calls[i].val

\* the attempts that have failed so far
FailedAttempts(rn) ==
    {i \in 1 .. Len(rn.calls) : TimedOut(rn, i) \/ HandlerFailed(rn, i)}

(* ------------------------------- claims ------------------------------- *)

\* C1: a run whose every attempt failed (so a run that rejected), with
\* maxRetries = n >= 0, has invoked the handler exactly n+1 times, has invoked
\* the dead-letter hook exactly once with the error of attempt n+1, and has
\* rejected with that same error.
C1_AlwaysFailing ==
    \A r \in RunIds :
        LET rn == runs[r]
            n == job.maxRetries
        IN (n >= 0 /\ rn.pc = "rejected") =>
              /\ Len(rn.calls) = n + 1
              /\ Len(rn.dlq) = 1
              /\ rn.dlq[1].error = AttemptError(rn, n + 1)
              /\ rn.result = [kind |-> "error", val |-> AttemptError(rn, n + 1)]

\* C2: a run that has settled after k <= maxRetries failed attempts has
\* settled by the success of attempt k+1: it returned that attempt's result
\* after exactly k+1 handler invocations and exactly k backoff waits, and the
\* dead-letter hook was not invoked.
C2_FailsThenSucceeds ==
    \A r \in RunIds :
        LET rn == runs[r]
            k == Cardinality(FailedAttempts(rn))
        IN (job.maxRetries >= 0 /\ Settled(rn) /\ k <= job.maxRetries) =>
              /\ rn.pc = "resolved"
              /\ Len(rn.calls) = k + 1
              /\ Succeeded(rn, k + 1)
              /\ rn.result = [kind |-> "value", val |-> rn.calls[k + 1].val]
              /\ Len(rn.waits) = k
              /\ rn.dlq = <<>>

\* C3: when the first handler invocation succeeds, the handler was invoked
\* exactly once, with the payload given to run, no backoff wait and no
\* dead-letter call happened, and run returned exactly the value the handler
\* resolved with.
C3_FirstCallSucceeds ==
    \A r \in RunIds :
        LET rn == runs[r] IN
        (Len(rn.calls) >= 1 /\ Succeeded(rn, 1)) =>
              /\ rn.pc = "resolved"
              /\ rn.result = [kind |-> "value", val |-> rn.calls[1].val]
              /\ Len(rn.calls) = 1
              /\ rn.attempt = 1
              /\ rn.calls[1].arg = rn.payload
              /\ rn.waits = <<>>
              /\ rn.dlq = <<>>

C3_Witness ==
    \E r \in RunIds :
        /\ Len(runs[r].calls) = 1
        /\ Succeeded(runs[r], 1)
        /\ runs[r].payload = "p2"
        /\ runs[r].result = [kind |-> "value", val |-> "v2"]

\* C4: an attempt whose handler promise was unsettled when the timer fired is
\* a failed attempt with the error "Job execution timed out", timeoutMs after
\* its start; it is followed by the backoff of that attempt when attempts
\* remain and by the dead letter and the rejection with the timeout error
\* when none remain; and this is so whether the promise has since resolved,
\* rejected or stayed unsettled.
C4_TimeoutIsAFailure ==
    \A r \in RunIds :
        LET rn == runs[r] IN
        \A i \in 1 .. Len(rn.calls) :
            TimedOut(rn, i) =>
              /\ rn.calls[i].state \in {"pending", "resolved", "rejected"}
              /\ Len(rn.errors) >= i
              /\ rn.errors[i] = TimeoutError
              /\ \E l \in 1 .. Len(rn.log) :
                    rn.log[l] = LogLine("FAILED", i, "Job execution timed out")
              /\ i <= job.maxRetries =>
                    /\ Len(rn.waits) >= i
                    /\ rn.waits[i].after = i
                    /\ rn.waits[i].from = rn.calls[i].at + job.timeoutMs
                    /\ rn.dlq = <<>> \/ Len(rn.calls) > i
              /\ i > job.maxRetries =>
                    /\ Len(rn.calls) = i
                    /\ Len(rn.waits) = i - 1
                    /\ Len(rn.dlq) = 1
                    /\ rn.dlq[1].error = TimeoutError
                    /\ rn.pc \in {"dlq", "rejected"}
                    /\ rn.pc = "rejected" =>
                          rn.result = [kind |-> "error", val |-> TimeoutError]

C4_Witness ==
    \E r \in RunIds :
        /\ Len(runs[r].calls) = 3
        /\ TimedOut(runs[r], 1) /\ runs[r].calls[1].state = "resolved"
        /\ TimedOut(runs[r], 2) /\ runs[r].calls[2].state = "rejected"
        /\ TimedOut(runs[r], 3) /\ runs[r].calls[3].state = "pending"
        /\ job.maxRetries = 2
        /\ runs[r].pc = "rejected"

\* C5: every failure of an attempt is handled alike, whatever the error: the
\* failure of attempt i <= maxRetries is followed by the backoff of attempt
\* i, the failure of attempt maxRetries+1 by the dead-letter call with that
\* error, and run rejects only after that call, with that error.
C5_UniformFailures ==
    \A r \in RunIds :
        LET rn == runs[r] IN
        /\ \A i \in FailedAttempts(rn) :
              /\ i <= job.maxRetries =>
                    Len(rn.waits) >= i /\ rn.waits[i].after = i
              /\ i > job.maxRetries =>
                    /\ Len(rn.dlq) = 1
                    /\ rn.dlq[1].error = AttemptError(rn, i)
                    /\ rn.pc = "rejected" =>
                          rn.result = [kind |-> "error", val |-> AttemptError(rn, i)]
        /\ rn.pc = "rejected" => Len(rn.calls) = job.maxRetries + 1

\* C6 as stated: at most one handler invocation of a run is unsettled.
C6_OneUnsettledInvocation ==
    \A r \in RunIds :
        Cardinality({i \in 1 .. Len(runs[r].calls) :
                        runs[r].calls[i].state = "pending"}) <= 1

\* C6 as amended: at most one attempt of a run is in progress, the last one
\* started, and it is the one run awaits; an invocation of an earlier
\* attempt is still unsettled only if that attempt ended by timeout, so the
\* unsettled invocations are at most one more than the timed-out attempts.
C6_OneAttemptInProgress ==
    \A r \in RunIds :
        LET rn == runs[r]
            open == {i \in 1 .. Len(rn.calls) : rn.calls[i].race = "pending"}
            unsettled == {i \in 1 .. Len(rn.calls) : rn.calls[i].state = "pending"}
            timedOut == {i \in 1 .. Len(rn.calls) : TimedOut(rn, i)}
        IN /\ Cardinality(open) <= 1
           /\ \A i \in open :
                 i = Len(rn.calls) /\ i = rn.attempt /\ rn.pc = "race"
           /\ rn.pc = "race" => open = {rn.attempt}
           /\ \A i \in unsettled : i \in open \/ i \in timedOut
           /\ Cardinality(unsettled) <= Cardinality(timedOut) + 1

C6_Witness ==
    \E r \in RunIds :
        /\ Len(runs[r].calls) = 3
        /\ \A i \in 1 .. 3 : runs[r].calls[i].state = "pending"
        /\ TimedOut(runs[r], 1) /\ TimedOut(runs[r], 2)
        /\ runs[r].calls[3].race = "pending"

\* C7: the j-th wait of a run follows the failure of attempt j <= maxRetries,
\* lasts exactly backoffMs * j, and attempt j+1 starts exactly that long
\* after the failure; no wait follows the failure of attempt maxRetries+1.
C7_LinearBackoff ==
    \A r \in RunIds :
        LET rn == runs[r] IN
        /\ \A j \in 1 .. Len(rn.waits) :
              /\ rn.waits[j].after = j
              /\ j <= job.maxRetries
              /\ rn.waits[j].delay = job.backoffMs * j
              /\ Len(rn.calls) > j =>
                    rn.calls[j + 1].at = rn.waits[j].from + job.backoffMs * j
              /\ Len(rn.calls) = j =>
                    /\ rn.pc = "backoff"
                    /\ rn.timers = {[kind |-> "backoff", attempt |-> j,
                                     due |-> rn.waits[j].from + job.backoffMs * j]}
        /\ rn.pc = "backoff" => Len(rn.waits) = Len(rn.calls)
        /\ rn.pc \in {"dlq", "rejected"} =>
              /\ Len(rn.waits) = Len(rn.calls) - 1
              /\ rn.timers = {}
        /\ rn.dlq # <<>> => Len(rn.waits) = job.maxRetries

C7_Witness ==
    \E r \in RunIds :
        /\ job.backoffMs = 2
        /\ Len(runs[r].waits) = 3
        /\ \A j \in 1 .. 3 : runs[r].waits[j].delay = 2 * j
        /\ Len(runs[r].calls) = 4
        /\ runs[r].pc = "rejected"
        /\ runs[r].dlq # <<>>

\* C8: the dead-letter hook is invoked at most once in a run, only after the
\* failure of attempt maxRetries+1 (never while attempts remain), never in a
\* run that returns a result, with the payload passed to run; and run rejects
\* in a later step than the call, from the await of the hook's promise.
C8_DeadLetterState ==
    \A r \in RunIds :
        LET rn == runs[r] IN
        /\ Len(rn.dlq) <= 1
        /\ rn.pc = "resolved" => rn.dlq = <<>>
        /\ rn.pc = "dlq" => Len(rn.dlq) = 1 /\ rn.result = NoResult
        /\ Len(rn.dlq) = 1 =>
              /\ rn.dlq[1].attempt = job.maxRetries + 1
              /\ Len(rn.calls) = job.maxRetries + 1
              /\ FailedAttempts(rn) = 1 .. Len(rn.calls)
              /\ rn.dlq[1].payload = rn.payload
              /\ rn.calls[1].arg = rn.dlq[1].payload
              /\ rn.pc \in {"dlq", "rejected"}
              /\ rn.result.kind # "value"

C8_DeadLetterBeforeReject ==
    \A r \in RunIds :
        (runs[r].result.kind = "none" /\ runs'[r].result.kind = "error"
            /\ runs'[r].dlq # <<>>) =>
              runs[r].pc = "dlq" /\ runs[r].dlq = runs'[r].dlq

C8_DeadLetterOnlyWhenExhausted ==
    [] C8_DeadLetterState /\ [][C8_DeadLetterBeforeReject]_vars

C8_Witness ==
    \E r \in RunIds :
        /\ job.maxRetries = 2
        /\ runs[r].pc = "rejected"
        /\ runs[r].payload = "p2"
        /\ runs[r].dlq = <<[error |-> "E2", payload |-> "p2", attempt |-> 3]>>
        /\ runs[r].result = [kind |-> "error", val |-> "E2"]

\* C9: the attempt counter of a run never exceeds maxRetries + 1, and, timers
\* firing, every run that was called settles, also when no handler promise
\* ever settles.
C9_AttemptsBounded ==
    \A r \in RunIds :
        /\ runs[r].attempt <= job.maxRetries + 1
        /\ Len(runs[r].calls) = runs[r].attempt

C9_BoundedRetry ==
    /\ [] C9_AttemptsBounded
    /\ \A r \in OneRun : (runs[r].pc # "idle") ~> Settled(runs[r])

C9_Witness ==
    \E r \in RunIds :
        /\ job.maxRetries = 3
        /\ runs[r].attempt = 4
        /\ \A i \in 1 .. 4 : runs[r].calls[i].state = "pending"
        /\ runs[r].pc = "rejected"

\* C10: the step in which the handler promise of a timed-out attempt settles
\* changes nothing but that promise: the attempt counter, the timers, the
\* waits, the dead letter, the position and the result of the run, the other
\* invocations and the clock stay as they were.
C10_LateSettlementStep ==
    \A r \in RunIds :
        \A i \in 1 .. Len(runs[r].calls) :
            (/\ TimedOut(runs[r], i)
             /\ runs[r].calls[i].state = "pending"
             /\ runs'[r].calls[i].state # "pending") =>
                /\ now' = now
                /\ job' = job
                /\ runs'[r] = [runs[r] EXCEPT
                                 !.calls[i].state = runs'[r].calls[i].state,
                                 !.calls[i].val = runs'[r].calls[i].val]

C10_LateSettlementDiscarded == [][C10_LateSettlementStep]_vars

C10_Witness ==
    \E r \in RunIds :
        /\ Len(runs[r].calls) = 2
        /\ TimedOut(runs[r], 1) /\ runs[r].calls[1].state = "rejected"
        /\ Succeeded(runs[r], 2)
        /\ runs[r].result = [kind |-> "value", val |-> "v2"]

\* how attempt i of a run ended, as far as it has
Outcome(rn, i) ==
    IF TimedOut(rn, i) THEN [kind |-> "fail", val |-> TimeoutError]
    ELSE IF Succeeded(rn, i) THEN [kind |-> "ok", val |-> rn.calls[i].val]
    ELSE IF HandlerFailed(rn, i) THEN [kind |-> "fail", val |-> rn.calls[i].val]
    ELSE [kind |-> "open", val |-> Undefined]

Outcomes(rn) == [i \in 1 .. Len(rn.calls) |-> Outcome(rn, i)]

\* what a run that is alone on its instance comes to when its handler
\* invocations end as `outs`, from attempt i on: how it settles, after how
\* many attempts, with which waits and which dead letter
RECURSIVE Alone(_, _, _, _)
Alone(payload, outs, i, delays) ==
    LET none == [pc |-> "open", attempts |-> i, result |-> NoResult,
                 dlq |-> <<>>, delays |-> delays]
    IN
    IF i > job.maxRetries + 1
    THEN [none EXCEPT !.pc = "resolved", !.attempts = i - 1,
                      !.result = [kind |-> "value", val |-> Undefined]]
    ELSE IF i > Len(outs)
    THEN [none EXCEPT !.attempts = i - 1]
    ELSE IF outs[i].kind = "open"
    THEN none
    ELSE IF outs[i].kind = "ok"
    THEN [none EXCEPT !.pc = "resolved",
                      !.result = [kind |-> "value", val |-> outs[i].val]]
    ELSE IF outs[i].val \in Nullish
    THEN [none EXCEPT !.pc = "rejected",
                      !.result = [kind |-> "error", val |-> TypeErrorOf(outs[i].val)]]
    ELSE IF i > job.maxRetries
    THEN [none EXCEPT !.pc = "rejected",
                      !.result = [kind |-> "error", val |-> outs[i].val],
                      !.dlq = <<[error |-> outs[i].val, payload |-> payload,
                                 attempt |-> i]>>]
    ELSE Alone(payload, outs, i + 1, Append(delays, job.backoffMs * i))

\* C11: overlapping invocations of run on one instance share no state: each
\* has its own attempt counter and its own timeout timer, makes at most
\* maxRetries+1 attempts, keeps its own timing, and settles (result or
\* rejection, number of attempts, waits, dead-letter call) as it would alone
\* with the same handler outcomes.
C11_RunsIndependent ==
    \A r \in RunIds :
        LET rn == runs[r]
            alone == Alone(rn.payload, Outcomes(rn), 1, <<>>)
        IN /\ rn.attempt = Len(rn.calls)
           /\ rn.attempt <= job.maxRetries + 1
           /\ \A tm \in rn.timers : tm.attempt = rn.attempt
           /\ Cardinality(rn.timers) <= 1
           /\ \A i \in 1 .. Len(rn.calls) : rn.calls[i].arg = rn.payload
           /\ \A j \in 1 .. Len(rn.waits) :
                 /\ TimedOut(rn, j) => rn.waits[j].from = rn.calls[j].at + job.timeoutMs
                 /\ Len(rn.calls) > j => rn.calls[j + 1].at = rn.waits[j].from + rn.waits[j].delay
           /\ rn.pc # "idle" =>
                 /\ alone.attempts = rn.attempt
                 /\ alone.delays = [j \in 1 .. Len(rn.waits) |-> rn.waits[j].delay]
                 /\ alone.dlq = rn.dlq
           /\ Settled(rn) => alone.pc = rn.pc /\ alone.result = rn.result
           /\ rn.pc \in {"race", "backoff"} => alone.pc = "open"
           /\ rn.pc = "dlq" => alone.pc = "rejected"

C11_Witness ==
    /\ RunIds = TwoRuns
    /\ job.maxRetries = 1
    /\ runs[1].pc = "resolved" /\ runs[1].attempt = 2
    /\ runs[1].calls[1].at = 0 /\ TimedOut(runs[1], 1)
    /\ runs[2].pc = "rejected" /\ runs[2].attempt = 2
    /\ runs[2].calls[1].at = 1 /\ TimedOut(runs[2], 1)
    /\ runs[2].calls[2].at = 4
    /\ runs[2].dlq # <<>>

\* the lines of a log with one of the tags
LinesOf(log, tags) == {l \in 1 .. Len(log) : log[l].tag \in tags}

\* C12: the log of a run follows the attempt protocol: every line carries the
\* job name; each attempt has its START line, and once it has ended exactly
\* one SUCCESS or FAILED line, directly after its START; RETRY comes only
\* directly after the FAILED of an attempt with attempts remaining; DEAD
\* LETTER comes exactly once, directly after the FAILED of the last attempt;
\* nothing follows SUCCESS or DEAD LETTER.
C12_LogProtocol ==
    \A r \in RunIds :
        LET rn == runs[r]
            log == rn.log
            ended == FailedAttempts(rn) \cup
                     {i \in 1 .. Len(rn.calls) : Succeeded(rn, i)}
        IN /\ \A l \in 1 .. Len(log) :
                 /\ log[l].job = job.jobName
                 /\ log[l].tag = "START" =>
                       /\ l = 1 \/ log[l - 1].tag = "RETRY"
                       /\ log[l].attempt = Cardinality(LinesOf(SubSeq(log, 1, l), {"START"}))
                 /\ log[l].tag \in {"SUCCESS", "FAILED"} =>
                       /\ l > 1
                       /\ log[l - 1].tag = "START"
                       /\ log[l - 1].attempt = log[l].attempt
                 /\ log[l].tag = "RETRY" =>
                       /\ l > 1
                       /\ log[l - 1].tag = "FAILED"
                       /\ log[l - 1].attempt = log[l].attempt
                       /\ log[l].attempt <= job.maxRetries
                 /\ log[l].tag = "DEAD LETTER" =>
                       /\ l > 1
                       /\ log[l - 1].tag = "FAILED"
                       /\ log[l - 1].attempt = job.maxRetries + 1
                 /\ log[l].tag \in {"SUCCESS", "DEAD LETTER"} => l = Len(log)
           /\ Cardinality(LinesOf(log, {"START"})) = Len(rn.calls)
           /\ \A i \in ended :
                 /\ Cardinality({l \in LinesOf(log, {"SUCCESS", "FAILED"}) :
                                    log[l].attempt = i}) = 1
                 /\ (\E l \in LinesOf(log, {"SUCCESS"}) : log[l].attempt = i)
                       <=> Succeeded(rn, i)
           /\ \A i \in FailedAttempts(rn) :
                 i > job.maxRetries =>
                    Cardinality(LinesOf(log, {"DEAD LETTER"})) = 1

\* C14: a runner constructed without maxRetries, backoffMs and timeoutMs and
\* run without an argument has maxRetries 3, backoffMs 2000, timeoutMs 5000
\* and hands the empty payload to the handler; when its operation fails on
\* every attempt it makes exactly 4 attempts, with waits of 2000, 4000 and
\* 6000 between them, each attempt limited to 5000.
C14_Defaults ==
    /\ job.maxRetries = 3 /\ job.backoffMs = 2000 /\ job.timeoutMs = 5000
    /\ \A r \in RunIds :
          LET rn == runs[r] IN
          /\ \A i \in 1 .. Len(rn.calls) : rn.calls[i].arg = EmptyPayload
          /\ \A tm \in rn.timers :
                tm.kind = "timeout" => tm.due = rn.calls[tm.attempt].at + 5000
          /\ \A i \in 1 .. Len(rn.calls) :
                TimedOut(rn, i) /\ i <= Len(rn.waits) =>
                    rn.waits[i].from = rn.calls[i].at + 5000
          /\ rn.pc = "rejected" =>
                /\ Len(rn.calls) = 4
                /\ [j \in 1 .. Len(rn.waits) |-> rn.waits[j].delay] = <<2000, 4000, 6000>>
                /\ \A j \in 1 .. 3 : rn.calls[j + 1].at = rn.waits[j].from + 2000 * j

\* C16: for every maxRetries, a run that has resolved has invoked the
\* handler, its last invocation settled successfully before its timeout, the
\* value returned is that invocation's result, and nothing (attempt, backoff
\* wait, dead-letter call) came after it.
C16_ResolvesWithHandlerResult ==
    \A r \in RunIds :
        LET rn == runs[r]
            n == Len(rn.calls)
        IN rn.pc = "resolved" =>
              /\ n >= 1
              /\ Succeeded(rn, n)
              /\ rn.result = [kind |-> "value", val |-> rn.calls[n].val]
              /\ rn.attempt = n
              /\ Len(rn.waits) = n - 1
              /\ rn.timers = {}
              /\ rn.dlq = <<>>

\* C20: a run has at most one armed timeout timer, that of the attempt whose
\* race is undecided; the timer of an attempt is gone once its race is
\* decided, so none is armed during a backoff wait, during the dead-letter
\* await or after run has settled; an attempt whose handler threw
\* synchronously has no race and no timer.
C20_TimersNeverLeak ==
    \A r \in RunIds :
        LET rn == runs[r]
            armed == {tm \in rn.timers : tm.kind = "timeout"}
        IN /\ Cardinality(armed) <= 1
           /\ \A tm \in armed :
                 /\ tm.attempt = rn.attempt
                 /\ rn.pc = "race"
                 /\ rn.calls[tm.attempt].race = "pending"
                 /\ tm.due = rn.calls[tm.attempt].at + job.timeoutMs
           /\ rn.pc = "race" => Cardinality(armed) = 1
           /\ rn.pc = "backoff" =>
                 armed = {} /\ Cardinality(rn.timers) = 1
           /\ rn.pc \in {"idle", "dlq", "resolved", "rejected"} => rn.timers = {}
           /\ \A i \in 1 .. Len(rn.calls) :
                 /\ rn.calls[i].race \in {"won", "lost"} =>
                       \A tm \in armed : tm.attempt # i
                 /\ rn.calls[i].state = "threw" =>
                       /\ rn.calls[i].race = "none"
                       /\ \A tm \in armed : tm.attempt # i

C20_Witness ==
    \E r \in RunIds :
        /\ Len(runs[r].calls) = 3
        /\ runs[r].calls[1].state = "threw"
        /\ runs[r].calls[2].state = "rejected" /\ runs[r].calls[2].race = "won"
        /\ TimedOut(runs[r], 3)
        /\ runs[r].pc = "backoff"
        /\ \A tm \in runs[r].timers : tm.kind = "backoff"

(* ----------------------- the dependency guard ------------------------- *)

\* a call of callDependency that has returned the fallback at once
ServedFallback(slot) ==
    /\ slot.state = "done"
    /\ slot.via = "open"
    /\ slot.issued = 0
    /\ slot.result = [kind |-> "resolved", val |-> slot.fallback]

\* C13: every call of callDependency that starts less than 60 seconds
\* after the recordFailure that brought dependencyFailures to 5 returns the
\* fallback without issuing a request, whatever the calls in flight do.
C13_WindowCallsServeFallback ==
    \A s \in DepSlots :
        (deps[s].state # "free" /\ deps[s].inWindow) => ServedFallback(deps[s])

\* the call in slot s returns in this step by the path `via`
Returns(s, via) ==
    /\ deps[s].state = "running"
    /\ deps'[s].state = "done"
    /\ deps'[s].via = via

C15_OpenOnlyFromThreshold ==
    circuitOpenUntil # NullTime => dependencyFailures >= FailureThreshold

C15_CountingStep ==
    /\ \A s \in DepSlots :
          /\ Returns(s, "failure") =>
                dependencyFailures' = dependencyFailures + 1
          /\ Returns(s, "success") =>
                dependencyFailures' = 0 /\ circuitOpenUntil' = NullTime
    /\ dependencyFailures' # dependencyFailures =>
          \E s \in DepSlots : Returns(s, "failure") \/ Returns(s, "success")

\* C15: circuitOpenUntil is set only while dependencyFailures >= 5; a call
\* whose tries all failed adds exactly 1 to dependencyFailures; a call that
\* succeeded sets dependencyFailures to 0 and circuitOpenUntil to null; and
\* nothing else changes the counter.
C15_FixedThreshold ==
    [](C15_OpenOnlyFromThreshold) /\ [][C15_CountingStep]_vars

\* the circuit has been opened and a further failure has been counted
C15_Witness ==
    /\ circuitOpenUntil # NullTime
    /\ dependencyFailures = FailureThreshold + 1
    /\ \E s \in DepSlots : deps[s].state = "done" /\ deps[s].via = "failure"

\* what a call of callDependency that has returned has given its caller
C17_ResolvedValue ==
    \A s \in DepSlots :
        deps[s].state = "done" =>
            /\ deps[s].result.kind = "resolved"
            /\ deps[s].fallback \in {Null, "fb"}
            /\ deps[s].via \in {"open", "success", "failure"}
            /\ deps[s].via = "success" =>
                  /\ deps[s].result.val \in DepData
                  /\ deps[s].issued \in 1 .. DefaultRetries + 1
            /\ deps[s].via = "failure" =>
                  /\ deps[s].result.val = deps[s].fallback
                  /\ deps[s].issued = DefaultRetries + 1
            /\ deps[s].via = "open" =>
                  /\ deps[s].result.val = deps[s].fallback
                  /\ deps[s].issued = 0

\* a call of callDependency starts in this step
C17_CallStep ==
    depCalls' = depCalls + 1 =>
        IF isCircuitOpen(circuitOpenUntil, clock')
        THEN /\ UNCHANGED <<dependencyFailures, circuitOpenUntil>>
             /\ \E s \in DepSlots :
                   /\ deps[s].state # "running"
                   /\ ServedFallback(deps'[s])
                   /\ \A x \in DepSlots \ {s} :
                         deps[x].state = "running" => deps'[x] = deps[x]
        ELSE \E s \in DepSlots :
                /\ deps[s].state # "running"
                /\ deps'[s].state = "running"
                /\ deps'[s].q.calls = 1

\* C17: callDependency never rejects: it resolves with response.data of a
\* request that succeeded within the retries, or with the fallback (null by
\* default) when the circuit is open or when every try failed; with the
\* circuit open it issues no request and changes neither counter.
C17_NeverRejects ==
    [](C17_ResolvedValue) /\ [][C17_CallStep]_vars

\* a call has been answered by the open circuit with its own fallback
\* while another call, started before the circuit opened, is on its last try
C17_Witness ==
    /\ \E s \in DepSlots :
          /\ ServedFallback(deps[s])
          /\ deps[s].result.val = "fb"
    /\ \E s \in DepSlots :
          /\ deps[s].state = "running"
          /\ deps[s].q.calls = DefaultRetries + 1
    /\ dependencyFailures = FailureThreshold

\* a call that started when the time in circuitOpenUntil had been reached
\* has issued a request, and the counter is still at 5 or more at that time
C18_ClosedByTime ==
    /\ AfterCooldown(clock) => dependencyFailures >= FailureThreshold
    /\ \A s \in DepSlots :
          (deps[s].state # "free" /\ deps[s].afterCooldown) =>
              /\ deps[s].via # "open"
              /\ deps[s].state = "running" => deps[s].q.calls >= 1
              /\ deps[s].state = "done" => deps[s].issued >= 1

C18_AfterCooldownStep ==
    /\ <<dependencyFailures, circuitOpenUntil>>' # <<dependencyFailures, circuitOpenUntil>> =>
          \E s \in DepSlots : Returns(s, "failure") \/ Returns(s, "success")
    /\ \A s \in DepSlots :
          deps[s].afterCooldown =>
              /\ (Returns(s, "failure") /\ dependencyFailures >= FailureThreshold) =>
                    /\ circuitOpenUntil' = clock' + CooldownMs
                    /\ isCircuitOpen(circuitOpenUntil', clock')
                    /\ dependencyFailures' > FailureThreshold
              /\ Returns(s, "success") =>
                    /\ dependencyFailures' = 0
                    /\ ~isCircuitOpen(circuitOpenUntil', clock')

\* C18: the passing of time closes the circuit and changes neither counter:
\* a call that starts once the 60 seconds are over issues requests again;
\* if it fails while dependencyFailures is still >= 5, that one failure
\* opens the circuit for 60 seconds from then; if it succeeds the counter
\* is 0 again.
C18_ClosesByTimeAlone ==
    [](C18_ClosedByTime) /\ [][C18_AfterCooldownStep]_vars

\* the first call after the cooldown has failed and the circuit is open again
C18_Witness ==
    /\ \E s \in DepSlots :
          /\ deps[s].state = "done"
          /\ deps[s].afterCooldown
          /\ deps[s].via = "failure"
    /\ clock >= CooldownMs
    /\ isCircuitOpen(circuitOpenUntil, clock)
    /\ dependencyFailures = FailureThreshold + 1

(* ---------------------------- retryRequest ---------------------------- *)

\* the calls of fn that have settled so far have all failed
AllFailed(q, n) == \A i \in 1 .. n : q.outs[i].kind = "rejected"

C19_RetryProtocol ==
    rr.phase # "idle" =>
        /\ rr.calls \in 1 .. rr.asked + 1
        /\ rr.retries = rr.asked - (rr.calls - 1)
        /\ Len(rr.outs) = (IF rr.phase = "calling" THEN rr.calls - 1 ELSE rr.calls)
        /\ Len(rr.waits) = rr.calls - 1
        /\ \A i \in 1 .. Len(rr.waits) : rr.waits[i] = RetryWaitMs
        /\ rr.phase = "waiting" => rr.due = rr.failedAt + RetryWaitMs
        /\ rr.phase \in {"calling", "waiting"} =>
              AllFailed(rr, Len(rr.outs)) /\ rr.result = NoResult
        /\ rr.phase = "resolved" =>
              /\ AllFailed(rr, rr.calls - 1)
              /\ rr.outs[rr.calls].kind = "resolved"
              /\ rr.result = rr.outs[rr.calls]
        /\ rr.phase = "rejected" =>
              /\ rr.calls = rr.asked + 1
              /\ AllFailed(rr, rr.calls)
              /\ rr.result = rr.outs[rr.calls]

C19_Terminates ==
    (rr.phase # "idle") ~> (rr.phase \in {"resolved", "rejected"})

\* C19: retryRequest(fn, retries) with retries >= 0 calls fn at most
\* retries + 1 times (3 by default), one call at a time and 500 ms after
\* each failure; it returns the value of the first call that succeeds, and
\* rejects with the error of the last call when every call fails; it always
\* settles.
C19_RetryRequest ==
    [](C19_RetryProtocol) /\ C19_Terminates

\* three calls have failed with different errors and the last one is thrown
C19_Witness ==
    /\ rr.phase = "rejected"
    /\ rr.asked = DefaultRetries
    /\ rr.calls = 3
    /\ rr.outs[1].val = "E1"
    /\ rr.outs[3].val = "E2"
    /\ rr.result = [kind |-> "rejected", val |-> "E2"]
    /\ clock >= 2 * RetryWaitMs

(* ------------------------------ shutdown ------------------------------ *)

Signalled == Len(proc.signals) > 0

\* the latest moment the process may still run: 10 s after the first signal
Deadline == proc.signals[1].at + ShutdownTimeoutMs

\* the position of the first event e in the history of the process, 0 if none
FirstOf(e) ==
    IF \E i \in DOMAIN proc.events : proc.events[i] = e
    THEN CHOOSE i \in DOMAIN proc.events :
            /\ proc.events[i] = e
            /\ \A j \in 1 .. i - 1 : proc.events[j] # e
    ELSE 0

\* the server has finished closing and the connection of mongoose, if there
\* is one, has been closed
CleanlyClosed ==
    /\ proc.serverClosed
    /\ Drained(proc)
    /\ HasMongoose(proc.dbConnection) => proc.db = "closed"

\* once signalled the process exits with code 0, or the timer ends it with
\* code 1 at 10 seconds
C21_CleanOrTimer ==
    (Signalled /\ Exited /\ proc.exit # 0) =>
        /\ proc.by = "timer"
        /\ proc.exit = 1
        /\ proc.exitAt = Deadline

C21_ShutdownState ==
    /\ (Signalled /\ Exited) =>
          \A i \in DOMAIN proc.signals :
             proc.exitAt <= proc.signals[i].at + ShutdownTimeoutMs
    /\ (Signalled /\ ~Exited) => clock <= Deadline
    /\ Exited <=> proc.by \in ExitPaths
    /\ proc.exit = 0 <=> proc.by = "close"
    /\ proc.exit = 0 =>
          /\ Signalled
          /\ CleanlyClosed
          /\ FirstOf("signal") < FirstOf("serverClosed")
          /\ HasMongoose(proc.dbConnection) =>
                /\ FirstOf("serverClosed") < FirstOf("dbClose")
                /\ FirstOf("dbClose") < FirstOf("dbClosed")
    /\ proc.db \in {"closing", "closed", "failed"} =>
          /\ proc.serverClosed
          /\ 0 < FirstOf("serverClosed")
          /\ FirstOf("serverClosed") < FirstOf("dbClose")
    /\ proc.by = "timer" =>
          /\ Signalled
          /\ proc.exit = 1
          /\ proc.exitAt = Deadline
          /\ ~CleanlyClosed
    /\ proc.by = "uncaught" => proc.exit \in {1, HandlerFailureExit}

C21_Exits == Signalled ~> Exited

\* C21: after a SIGINT or SIGTERM the process always exits no later than 10
\* seconds after the signal; it exits with code 0 only after the HTTP
\* server has finished closing and, when a mongoose connection exists, only
\* after that connection has been closed (server close strictly precedes
\* the database close); otherwise the 10-second timer exits with code 1,
\* unless the handler of uncaughtException has ended the process before
\* that (code 1, or 7 when the handler itself throws).
C21_GracefulShutdown ==
    [](C21_ShutdownState) /\ C21_Exits

\* two signals found a client connected; the connection ended later, the
\* server closed and each callback called connection.close(false): the
\* first call was rejected, the second resolved and its callback exited
\* with code 0 before the timer
C21_Witness ==
    /\ proc.exit = 0
    /\ HasMongoose(proc.dbConnection)
    /\ proc.db = "closed"
    /\ proc.closes = <<"rejected", "resolved">>
    /\ proc.exitAt = proc.signals[1].at + TickMs
    /\ proc.events = <<"signal", "signal", "serverClosed", "dbClose", "dbClose",
                       "dbCloseFailed", "dbClosed", "exit">>

====
